---- MODULE Spec2Model ----
(***************************************************************************)
(* Model of the authentication boundary of Hi-Mood-Tracker:                *)
(*   src/features/auth/models/auth.repository.ts                           *)
(*     authRepository (the seven facade operations), mapSupabaseUser,      *)
(*     mapSupabaseSession, AUTH_ERROR_MESSAGES, createAuthError            *)
(*   src/lib/supabase/server.ts  createClient                              *)
(*                                                                         *)
(* JavaScript values are tagged records, so that null, undefined, strings  *)
(* and numbers stay distinct and an exception in flight is a value         *)
(* (Thrown) that a try/catch has to turn into a result.                    *)
(***************************************************************************)
EXTENDS Naturals, Sequences, FiniteSets, TLC

VARIABLES
    \* one facade invocation, or one direct call of an exported helper
    pc, op, resp, thrownAt, outcome, providerCalls, args,
    \* concurrent facade invocations: calls[i] holds the locals of the i-th
    calls,
    \* updateSession (middleware): its position, request.cookies, the
    \* closure variable supabaseResponse, the number of setAll callbacks so
    \* far, the cookies they were passed, and the value returned
    mwPc, requestCookies, supabaseResponse, setAllCount, passed,
    returnedResponse

\* The variables of one facade invocation run on its own.
facadeVars == <<pc, op, resp, thrownAt, outcome, providerCalls, args>>
\* What the steps of that invocation never touch.
mwVars == <<mwPc, requestCookies, supabaseResponse, setAllCount, passed,
            returnedResponse>>
outsideFacade == <<calls, mwVars>>

vars == <<facadeVars, outsideFacade>>

(***************************************************************************)
(* Bounds                                                                  *)
(***************************************************************************)
\* Number of facade invocations that may be in progress at the same time.
MaxConcurrent == 2
\* Number of setAll callbacks during one getUser() of updateSession.
MaxSetAll == 2
\* Number of cookies in one setAll callback.
MaxCookies == 2
\* Largest expires_at (unix seconds, scaled down) a provider session carries.
MaxExpiry == 2

(***************************************************************************)
(* JavaScript values                                                       *)
(***************************************************************************)
Undefined == [t |-> "undefined"]
Null == [t |-> "null"]
Str(s) == [t |-> "string", s |-> s]
Num(n) == [t |-> "number", n |-> n]
\* An exception propagating out of an expression.
Thrown == [t |-> "throw"]
\* No value yet (a variable not assigned in this invocation).
None == [t |-> "none"]

IsString(v) == v.t = "string"
\* x is null or undefined: a property read on it raises a TypeError.
Nullish(v) == v = Null \/ v = Undefined
\* JavaScript falsiness, as used by `if (error)`, `!user`, `x || 0`.
Falsy(v) == \/ Nullish(v)
            \/ v = Num(0)
            \/ v = Str("")
Truthy(v) == ~Falsy(v)

\* String.prototype.includes: p occurs in s as a contiguous, case-sensitive
\* substring.
includes(s, p) ==
    \E i \in 1..(Len(s) + 1) :
        /\ i + Len(p) - 1 <= Len(s)
        /\ SubSeq(s, i, i + Len(p) - 1) = p

(***************************************************************************)
(* auth.types: AuthErrorType, AUTH_ERROR_MESSAGES, createAuthError         *)
(***************************************************************************)
AuthErrorType ==
    { "INVALID_CREDENTIALS", "USER_ALREADY_EXISTS", "EMAIL_NOT_VERIFIED",
      "WEAK_PASSWORD", "NETWORK_ERROR", "UNKNOWN_ERROR", "SESSION_EXPIRED",
      "INVALID_TOKEN" }

AUTH_ERROR_MESSAGES ==
    [ INVALID_CREDENTIALS |-> "Correo o contraseña incorrectos",
      USER_ALREADY_EXISTS |-> "Ya existe una cuenta con este correo",
      EMAIL_NOT_VERIFIED  |-> "Por favor verifica tu correo electrónico",
      WEAK_PASSWORD       |-> "La contraseña es demasiado débil",
      NETWORK_ERROR       |-> "Error de conexión. Verifica tu internet",
      UNKNOWN_ERROR       |-> "Ocurrió un error inesperado",
      SESSION_EXPIRED     |-> "Tu sesión ha expirado. Inicia sesión nuevamente",
      INVALID_TOKEN       |-> "El enlace de recuperación es inválido o ha expirado" ]

\* Mutant: the provider's text, when there is one, is shown as the message.
createAuthError_DetailsAsMessage(type, details) ==
    [ type |-> type,
      message |-> IF details = Undefined THEN AUTH_ERROR_MESSAGES[type]
                  ELSE details.s,
      details |-> details ]

\* details is Undefined when the caller omits the second argument.
createAuthError(type, details) ==
    [ type |-> type, message |-> AUTH_ERROR_MESSAGES[type], details |-> details ]

\* The two variants of AuthResult<T>.
Ok(data) == [ success |-> TRUE, data |-> data ]
Fail(error) == [ success |-> FALSE, error |-> error ]

(***************************************************************************)
(* auth.types: mapSupabaseUser, mapSupabaseSession                         *)
(***************************************************************************)
\* A property read on a null/undefined user raises; user_metadata is read
\* with ?. and so may be absent; emailVerified is `email_confirmed_at !== null`.
mapSupabaseUser(supabaseUser) ==
    IF Nullish(supabaseUser) THEN Thrown
    ELSE [ id |-> supabaseUser.id,
           email |-> supabaseUser.email,
           fullName |-> IF Nullish(supabaseUser.user_metadata)
                        THEN Undefined
                        ELSE supabaseUser.user_metadata.full_name,
           createdAt |-> supabaseUser.created_at,
           emailVerified |-> (supabaseUser.email_confirmed_at # Null) ]

\* Mutant: the `|| 0` default for a missing expiry is forgotten.
mapSupabaseSession_NoDefault(supabaseSession) ==
    IF Nullish(supabaseSession) THEN Thrown
    ELSE LET user == mapSupabaseUser(supabaseSession.user) IN
         IF user = Thrown THEN Thrown
         ELSE [ user |-> user,
                accessToken |-> supabaseSession.access_token,
                refreshToken |-> supabaseSession.refresh_token,
                expiresAt |-> supabaseSession.expires_at ]

mapSupabaseSession(supabaseSession) ==
    IF Nullish(supabaseSession) THEN Thrown
    ELSE LET user == mapSupabaseUser(supabaseSession.user) IN
         IF user = Thrown THEN Thrown
         ELSE [ user |-> user,
                accessToken |-> supabaseSession.access_token,
                refreshToken |-> supabaseSession.refresh_token,
                expiresAt |-> IF Falsy(supabaseSession.expires_at)
                              THEN Num(0)
                              ELSE supabaseSession.expires_at ]

(***************************************************************************)
(* authRepository: the seven facade operations.                            *)
(* Each operator takes `r`, what the awaited part of the try block gave:   *)
(* Thrown when createClient() or the provider call raised, otherwise the   *)
(* provider's response object.  The ...Try operators are the try blocks    *)
(* (they may evaluate to Thrown), the operators named after the methods    *)
(* add the catch clause.                                                   *)
(***************************************************************************)
\* Mutant: the provider's error is ignored when a user came with it.
getCurrentUserTry_IgnoreError(r) ==
    IF r = Thrown THEN Thrown
    ELSE IF Falsy(r.data.user) THEN Null
    ELSE mapSupabaseUser(r.data.user)

getCurrentUserTry(r) ==
    IF r = Thrown THEN Thrown
    ELSE IF Truthy(r.error) \/ Falsy(r.data.user) THEN Null
    ELSE mapSupabaseUser(r.data.user)

getCurrentUser(r) ==
    IF getCurrentUserTry(r) = Thrown THEN Null ELSE getCurrentUserTry(r)

getCurrentSessionTry(r) ==
    IF r = Thrown THEN Thrown
    ELSE IF Truthy(r.error) \/ Falsy(r.data.session) THEN Null
    ELSE mapSupabaseSession(r.data.session)

getCurrentSession(r) ==
    IF getCurrentSessionTry(r) = Thrown THEN Null ELSE getCurrentSessionTry(r)

\* Mutant: the two patterns are tested in the opposite order.
signInWithPasswordTry_Swapped(r) ==
    IF r = Thrown THEN Thrown
    ELSE IF Truthy(r.error) THEN
        IF ~IsString(r.error.message) THEN Thrown
        ELSE IF includes(r.error.message.s, "Email not confirmed")
             THEN Fail(createAuthError("EMAIL_NOT_VERIFIED", Undefined))
        ELSE IF includes(r.error.message.s, "Invalid login credentials")
             THEN Fail(createAuthError("INVALID_CREDENTIALS", Undefined))
        ELSE Fail(createAuthError("UNKNOWN_ERROR", r.error.message))
    ELSE IF Falsy(r.data.session)
         THEN Fail(createAuthError("UNKNOWN_ERROR", Undefined))
    ELSE IF mapSupabaseSession(r.data.session) = Thrown THEN Thrown
    ELSE Ok(mapSupabaseSession(r.data.session))

signInWithPasswordTry(r) ==
    IF r = Thrown THEN Thrown
    ELSE IF Truthy(r.error) THEN
        \* error.message.includes(...) raises when message is not a string
        IF ~IsString(r.error.message) THEN Thrown
        ELSE IF includes(r.error.message.s, "Invalid login credentials")
             THEN Fail(createAuthError("INVALID_CREDENTIALS", Undefined))
        ELSE IF includes(r.error.message.s, "Email not confirmed")
             THEN Fail(createAuthError("EMAIL_NOT_VERIFIED", Undefined))
        ELSE Fail(createAuthError("UNKNOWN_ERROR", r.error.message))
    ELSE IF Falsy(r.data.session)
         THEN Fail(createAuthError("UNKNOWN_ERROR", Undefined))
    ELSE IF mapSupabaseSession(r.data.session) = Thrown THEN Thrown
    ELSE Ok(mapSupabaseSession(r.data.session))

signInWithPassword(r) ==
    IF signInWithPasswordTry(r) = Thrown
    THEN Fail(createAuthError("NETWORK_ERROR", Undefined))
    ELSE signInWithPasswordTry(r)

\* Mutant: the two patterns are tested in the opposite order.
signUpTry_Swapped(r) ==
    IF r = Thrown THEN Thrown
    ELSE IF Truthy(r.error) THEN
        IF ~IsString(r.error.message) THEN Thrown
        ELSE IF includes(r.error.message.s, "Password")
             THEN Fail(createAuthError("WEAK_PASSWORD", Undefined))
        ELSE IF includes(r.error.message.s, "User already registered")
             THEN Fail(createAuthError("USER_ALREADY_EXISTS", Undefined))
        ELSE Fail(createAuthError("UNKNOWN_ERROR", r.error.message))
    ELSE IF Falsy(r.data.session)
         THEN Fail(createAuthError("UNKNOWN_ERROR", Undefined))
    ELSE IF mapSupabaseSession(r.data.session) = Thrown THEN Thrown
    ELSE Ok(mapSupabaseSession(r.data.session))

\* Mutant: the check for an absent session is forgotten.
signUpTry_NoSessionCheck(r) ==
    IF r = Thrown THEN Thrown
    ELSE IF Truthy(r.error) THEN
        IF ~IsString(r.error.message) THEN Thrown
        ELSE IF includes(r.error.message.s, "User already registered")
             THEN Fail(createAuthError("USER_ALREADY_EXISTS", Undefined))
        ELSE IF includes(r.error.message.s, "Password")
             THEN Fail(createAuthError("WEAK_PASSWORD", Undefined))
        ELSE Fail(createAuthError("UNKNOWN_ERROR", r.error.message))
    ELSE IF mapSupabaseSession(r.data.session) = Thrown THEN Thrown
    ELSE Ok(mapSupabaseSession(r.data.session))

signUpTry(r) ==
    IF r = Thrown THEN Thrown
    ELSE IF Truthy(r.error) THEN
        IF ~IsString(r.error.message) THEN Thrown
        ELSE IF includes(r.error.message.s, "User already registered")
             THEN Fail(createAuthError("USER_ALREADY_EXISTS", Undefined))
        ELSE IF includes(r.error.message.s, "Password")
             THEN Fail(createAuthError("WEAK_PASSWORD", Undefined))
        ELSE Fail(createAuthError("UNKNOWN_ERROR", r.error.message))
    ELSE IF Falsy(r.data.session)
         THEN Fail(createAuthError("UNKNOWN_ERROR", Undefined))
    ELSE IF mapSupabaseSession(r.data.session) = Thrown THEN Thrown
    ELSE Ok(mapSupabaseSession(r.data.session))

signUp(r) ==
    IF signUpTry(r) = Thrown
    THEN Fail(createAuthError("NETWORK_ERROR", Undefined))
    ELSE signUpTry(r)

signOutTry(r) ==
    IF r = Thrown THEN Thrown
    ELSE IF Truthy(r.error)
         THEN Fail(createAuthError("UNKNOWN_ERROR", r.error.message))
    ELSE Ok(Undefined)

\* Mutant: the catch clause reports the wrong error type.
signOut_WrongCatch(r) ==
    IF signOutTry(r) = Thrown
    THEN Fail(createAuthError("UNKNOWN_ERROR", Undefined))
    ELSE signOutTry(r)

signOut(r) ==
    IF signOutTry(r) = Thrown
    THEN Fail(createAuthError("NETWORK_ERROR", Undefined))
    ELSE signOutTry(r)

\* Mutant: the "token" pattern of updatePassword is pasted in.
resetPasswordRequestTry_TokenPattern(r) ==
    IF r = Thrown THEN Thrown
    ELSE IF Truthy(r.error) THEN
        IF ~IsString(r.error.message) THEN Thrown
        ELSE IF includes(r.error.message.s, "token")
             THEN Fail(createAuthError("INVALID_TOKEN", Undefined))
        ELSE Fail(createAuthError("UNKNOWN_ERROR", r.error.message))
    ELSE Ok(Undefined)

resetPasswordRequestTry(r) ==
    IF r = Thrown THEN Thrown
    ELSE IF Truthy(r.error)
         THEN Fail(createAuthError("UNKNOWN_ERROR", r.error.message))
    ELSE Ok(Undefined)

resetPasswordRequest(r) ==
    IF resetPasswordRequestTry(r) = Thrown
    THEN Fail(createAuthError("NETWORK_ERROR", Undefined))
    ELSE resetPasswordRequestTry(r)

\* Mutant: the "token" pattern is not tested.
updatePasswordTry_NoPattern(r) ==
    IF r = Thrown THEN Thrown
    ELSE IF Truthy(r.error)
         THEN Fail(createAuthError("UNKNOWN_ERROR", r.error.message))
    ELSE Ok(Undefined)

updatePasswordTry(r) ==
    IF r = Thrown THEN Thrown
    ELSE IF Truthy(r.error) THEN
        IF ~IsString(r.error.message) THEN Thrown
        ELSE IF includes(r.error.message.s, "token")
             THEN Fail(createAuthError("INVALID_TOKEN", Undefined))
        ELSE Fail(createAuthError("UNKNOWN_ERROR", r.error.message))
    ELSE Ok(Undefined)

\* Mutant: the try block has no catch clause.
updatePassword_NoCatch(r) == updatePasswordTry(r)

updatePassword(r) ==
    IF updatePasswordTry(r) = Thrown
    THEN Fail(createAuthError("NETWORK_ERROR", Undefined))
    ELSE updatePasswordTry(r)

ReadOps == { "getCurrentUser", "getCurrentSession" }
MutatingOps == { "signInWithPassword", "signUp", "signOut",
                 "resetPasswordRequest", "updatePassword" }
Ops == ReadOps \cup MutatingOps

\* authRepository.<o>, given what its awaited part produced.
authRepository(o, r) ==
    CASE o = "getCurrentUser" -> getCurrentUser(r)
      [] o = "getCurrentSession" -> getCurrentSession(r)
      [] o = "signInWithPassword" -> signInWithPassword(r)
      [] o = "signUp" -> signUp(r)
      [] o = "signOut" -> signOut(r)
      [] o = "resetPasswordRequest" -> resetPasswordRequest(r)
      [] o = "updatePassword" -> updatePassword(r)

(***************************************************************************)
(* The provider (Supabase Auth): what a call may answer.                   *)
(***************************************************************************)
\* Error messages the provider may report; they are chosen so that every
\* pattern of the facade occurs alone, together with another pattern, in
\* the middle of a longer text, in another letter case, and not at all.
ProviderMessages ==
    { "Invalid login credentials",
      "Email not confirmed",
      "Email not confirmed. Invalid login credentials",
      "AuthApiError: Invalid login credentials (400)",
      "invalid login credentials",
      "User already registered",
      "Password should be at least 6 characters",
      "Password rejected: User already registered",
      "password is too weak",
      "JWT token is invalid or expired",
      "Token has expired",
      "Password reset token: Invalid login credentials",
      "Too many requests",
      "" }

\* An error object; message is Undefined on a malformed error object.
ProviderErrors ==
    { [ message |-> m ] : m \in { Str(s) : s \in ProviderMessages } \cup { Undefined } }

ProviderUsers ==
    [ id : { "u-1" },
      email : { "ana@unicordoba.edu.co" },
      user_metadata : { Undefined,
                        [ full_name |-> Undefined ],
                        [ full_name |-> Str("Ana Ruiz") ] },
      created_at : { "2024-01-01T00:00:00Z" },
      email_confirmed_at : { Null, Undefined, Str("2024-01-02T00:00:00Z") } ]

\* A session whose user is Null is malformed: mapping it raises.
ProviderSessions ==
    [ user : ProviderUsers \cup { Null },
      access_token : { "access-1" },
      refresh_token : { "refresh-1" },
      expires_at : { Undefined } \cup { Num(n) : n \in 0..MaxExpiry } ]

MaybeError == ProviderErrors \cup { Null }

ProviderResponses(o) ==
    CASE o = "getCurrentUser" ->
            [ data : [ user : ProviderUsers \cup { Null, Undefined } ],
              error : MaybeError ]
      [] o \in { "getCurrentSession", "signInWithPassword", "signUp" } ->
            [ data : [ session : ProviderSessions \cup { Null, Undefined } ],
              error : MaybeError ]
      [] OTHER -> [ error : MaybeError ]

(***************************************************************************)
(* One invocation of a facade operation at a time:                         *)
(*   idle -> createClient -> providerCall -> responded -> returned -> idle *)
(***************************************************************************)
Init ==
    /\ pc = "idle"
    /\ op = "none"
    /\ resp = None
    /\ thrownAt = "none"
    /\ outcome = None
    /\ providerCalls = 0
    /\ args = None
    /\ calls = <<>>
    /\ mwPc = "idle"
    /\ requestCookies = <<>>
    /\ supabaseResponse = None
    /\ setAllCount = 0
    /\ passed = <<>>
    /\ returnedResponse = None

\* The caller invokes authRepository.<o>(...).
Invoke(o) ==
    /\ pc = "idle"
    /\ pc' = "createClient"
    /\ op' = o
    /\ UNCHANGED <<resp, thrownAt, outcome, providerCalls, args, outsideFacade>>

\* `await createClient()` gives a client.
createClientReturns ==
    /\ pc = "createClient"
    /\ pc' = "providerCall"
    /\ UNCHANGED <<op, resp, thrownAt, outcome, providerCalls, args, outsideFacade>>

\* `await createClient()` raises (cookies() outside a request scope): the
\* catch clause of the operation produces the return value.
createClientThrows ==
    /\ pc = "createClient"
    /\ pc' = "returned"
    /\ thrownAt' = "createClient"
    /\ outcome' = authRepository(op, Thrown)
    /\ UNCHANGED <<op, resp, providerCalls, args, outsideFacade>>

\* `await supabase.auth.<call>(...)` completes with a response object.
ProviderResponds ==
    /\ pc = "providerCall"
    /\ pc' = "responded"
    /\ resp' \in ProviderResponses(op)
    /\ providerCalls' = providerCalls + 1
    /\ UNCHANGED <<op, thrownAt, outcome, args, outsideFacade>>

\* Mutant: a call that raised is tried once more before giving up.
ProviderThrows_Retry ==
    /\ pc = "providerCall"
    /\ providerCalls' = providerCalls + 1
    /\ IF providerCalls = 0
       THEN UNCHANGED <<pc, thrownAt, outcome>>
       ELSE /\ pc' = "returned"
            /\ thrownAt' = "providerCall"
            /\ outcome' = authRepository(op, Thrown)
    /\ UNCHANGED <<op, resp, args, outsideFacade>>

\* `await supabase.auth.<call>(...)` raises at the transport level.
ProviderThrows ==
    /\ pc = "providerCall"
    /\ pc' = "returned"
    /\ thrownAt' = "providerCall"
    /\ providerCalls' = providerCalls + 1
    /\ outcome' = authRepository(op, Thrown)
    /\ UNCHANGED <<op, resp, args, outsideFacade>>

\* The rest of the try block runs on the response and the operation returns.
Return ==
    /\ pc = "responded"
    /\ pc' = "returned"
    /\ outcome' = authRepository(op, resp)
    /\ UNCHANGED <<op, resp, thrownAt, providerCalls, args, outsideFacade>>

\* What a caller may pass as `details`: nothing, or a provider message.
DetailsArguments == { Undefined } \cup { Str(s) : s \in ProviderMessages }

\* A caller uses the exported helper createAuthError(type, details?) itself.
CallCreateAuthError ==
    /\ pc = "idle"
    /\ pc' = "called"
    /\ op' = "createAuthError"
    /\ args' \in [ type : AuthErrorType, details : DetailsArguments ]
    /\ outcome' = createAuthError(args'.type, args'.details)
    /\ UNCHANGED <<resp, thrownAt, providerCalls, outsideFacade>>

\* The caller has consumed the result; the facade keeps nothing.
Finish ==
    /\ pc \in { "returned", "called" }
    /\ pc' = "idle"
    /\ op' = "none"
    /\ resp' = None
    /\ thrownAt' = "none"
    /\ outcome' = None
    /\ providerCalls' = 0
    /\ args' = None
    /\ UNCHANGED outsideFacade

Next ==
    \/ \E o \in Ops : Invoke(o)
    \/ createClientReturns
    \/ createClientThrows
    \/ ProviderResponds
    \/ ProviderThrows
    \/ Return
    \/ CallCreateAuthError
    \/ Finish

Spec == Init /\ [][Next]_vars

(***************************************************************************)
(* Concurrent invocations.  authRepository is an object of async methods   *)
(* with no fields and no module-level variables: all an invocation has is  *)
(* its own locals (supabase, data, error), held in calls[i].  Invocations  *)
(* interleave at their two awaits.                                         *)
(***************************************************************************)
IdleCall ==
    [ pc |-> "idle", op |-> "none", resp |-> None, thrownAt |-> "none",
      outcome |-> None ]

\* A well-formed provider session and its user.
SomeUser ==
    [ id |-> "u-1", email |-> "ana@unicordoba.edu.co",
      user_metadata |-> [ full_name |-> Str("Ana Ruiz") ],
      created_at |-> "2024-01-01T00:00:00Z",
      email_confirmed_at |-> Str("2024-01-02T00:00:00Z") ]
SomeSession ==
    [ user |-> SomeUser, access_token |-> "access-1",
      refresh_token |-> "refresh-1", expires_at |-> Num(1) ]
ErrorWith(m) == [ message |-> Str(m) ]

\* The provider responses used when invocations run concurrently: for each
\* operation a few of ProviderResponses(o) that give different results.
ConcurrentResponses(o) ==
    CASE o = "getCurrentUser" ->
            { [ data |-> [ user |-> SomeUser ], error |-> Null ],
              [ data |-> [ user |-> Null ], error |-> Null ] }
      [] o = "getCurrentSession" ->
            { [ data |-> [ session |-> SomeSession ], error |-> Null ],
              [ data |-> [ session |-> Null ], error |-> Null ] }
      [] o = "signInWithPassword" ->
            { [ data |-> [ session |-> SomeSession ], error |-> Null ],
              [ data |-> [ session |-> Null ], error |-> Null ],
              [ data |-> [ session |-> Null ],
                error |-> ErrorWith("Invalid login credentials") ],
              [ data |-> [ session |-> Null ],
                error |-> ErrorWith("Email not confirmed") ] }
      [] o = "signUp" ->
            { [ data |-> [ session |-> SomeSession ], error |-> Null ],
              [ data |-> [ session |-> Null ],
                error |-> ErrorWith("User already registered") ] }
      [] o = "updatePassword" ->
            { [ error |-> Null ],
              [ error |-> ErrorWith("JWT token is invalid or expired") ] }
      [] OTHER ->
            { [ error |-> Null ], [ error |-> ErrorWith("Too many requests") ] }

\* Mutant: data and error live in one place shared by all invocations, which
\* holds the response of the first invocation that has one.
awaited_Shared(i) ==
    LET holders == { j \in DOMAIN calls : calls[j].resp # None }
    IN  calls[CHOOSE j \in holders : \A k \in holders : j <= k].resp

\* `const { data, error } = await ...` of invocation i: its own response.
awaited(i) == calls[i].resp

InitConcurrent ==
    /\ Init!1 /\ Init!2 /\ Init!3 /\ Init!4 /\ Init!5 /\ Init!6 /\ Init!7
    /\ calls = [ i \in 1..MaxConcurrent |-> IdleCall ]
    /\ Init!9 /\ Init!10 /\ Init!11 /\ Init!12 /\ Init!13 /\ Init!14

InvokeConcurrently(i, o) ==
    /\ calls[i].pc = "idle"
    /\ calls' = [ calls EXCEPT ![i].pc = "createClient", ![i].op = o ]
    /\ UNCHANGED <<facadeVars, mwVars>>

createClientReturnsTo(i) ==
    /\ calls[i].pc = "createClient"
    /\ calls' = [ calls EXCEPT ![i].pc = "providerCall" ]
    /\ UNCHANGED <<facadeVars, mwVars>>

createClientThrowsIn(i) ==
    /\ calls[i].pc = "createClient"
    /\ calls' = [ calls EXCEPT ![i].pc = "returned",
                                ![i].thrownAt = "createClient",
                                ![i].outcome = authRepository(calls[i].op, Thrown) ]
    /\ UNCHANGED <<facadeVars, mwVars>>

ProviderRespondsTo(i) ==
    /\ calls[i].pc = "providerCall"
    /\ \E r \in ConcurrentResponses(calls[i].op) :
          calls' = [ calls EXCEPT ![i].pc = "responded", ![i].resp = r ]
    /\ UNCHANGED <<facadeVars, mwVars>>

ProviderThrowsIn(i) ==
    /\ calls[i].pc = "providerCall"
    /\ calls' = [ calls EXCEPT ![i].pc = "returned",
                                ![i].thrownAt = "providerCall",
                                ![i].outcome = authRepository(calls[i].op, Thrown) ]
    /\ UNCHANGED <<facadeVars, mwVars>>

ReturnFrom(i) ==
    /\ calls[i].pc = "responded"
    /\ calls' = [ calls EXCEPT ![i].pc = "returned",
                                ![i].outcome = authRepository(calls[i].op, awaited(i)) ]
    /\ UNCHANGED <<facadeVars, mwVars>>

\* The caller has the result of invocation i; its locals are gone.
FinishCall(i) ==
    /\ calls[i].pc = "returned"
    /\ calls' = [ calls EXCEPT ![i] = IdleCall ]
    /\ UNCHANGED <<facadeVars, mwVars>>

NextConcurrent ==
    \E i \in DOMAIN calls :
        \/ \E o \in Ops : InvokeConcurrently(i, o)
        \/ createClientReturnsTo(i)
        \/ createClientThrowsIn(i)
        \/ ProviderRespondsTo(i)
        \/ ProviderThrowsIn(i)
        \/ ReturnFrom(i)
        \/ FinishCall(i)

SpecConcurrent == InitConcurrent /\ [][NextConcurrent]_vars

(***************************************************************************)
(* src/lib/supabase/middleware.ts: updateSession(request).                 *)
(* A cookie jar is a function from the names it holds.  request.cookies    *)
(* maps a name to a value, response.cookies maps a name to the value and   *)
(* the options it was set with.                                            *)
(***************************************************************************)
CookieNames == { "sb-auth-token.0", "sb-auth-token.1" }
CookieValues == { "v1", "v2" }
\* Options of a cookie being set, and of one being removed.
CookieOptions == { [ path |-> "/", maxAge |-> 3600 ], [ path |-> "/", maxAge |-> 0 ] }
\* What one setAll callback may be passed: a non-empty list of cookies.
CookiesToSet ==
    UNION { [ 1..n -> [ name : CookieNames, value : CookieValues,
                        options : CookieOptions ] ] : n \in 1..MaxCookies }
\* The cookies the incoming request may carry.
IncomingCookies ==
    { <<>>, [ n \in { "sb-auth-token.0" } |-> "v0" ],
      [ n \in CookieNames |-> "v0" ] }

\* cookies.set(name, x): the jar holds x under name, whatever it held before.
cookiesSet(jar, name, x) ==
    [ n \in (DOMAIN jar) \cup { name } |-> IF n = name THEN x ELSE jar[n] ]

\* cookiesToSet.forEach(({name, value}) => request.cookies.set(name, value))
RECURSIVE forEachRequestSet(_, _)
forEachRequestSet(jar, cookiesToSet) ==
    IF cookiesToSet = <<>> THEN jar
    ELSE forEachRequestSet(
            cookiesSet(jar, Head(cookiesToSet).name, Head(cookiesToSet).value),
            Tail(cookiesToSet))

\* cookiesToSet.forEach(({name, value, options}) =>
\*     supabaseResponse.cookies.set(name, value, options))
RECURSIVE forEachResponseSet(_, _)
forEachResponseSet(jar, cookiesToSet) ==
    IF cookiesToSet = <<>> THEN jar
    ELSE forEachResponseSet(
            cookiesSet(jar, Head(cookiesToSet).name,
                       [ value |-> Head(cookiesToSet).value,
                         options |-> Head(cookiesToSet).options ]),
            Tail(cookiesToSet))

\* NextResponse.next({ request }): a new pass-through response, the id-th
\* made in this run; it forwards the request's cookies as they are now and
\* sets no cookie of its own.
NextResponseNext(id, cookiesOfRequest) ==
    [ id |-> id, forwarded |-> cookiesOfRequest, cookies |-> <<>> ]

InitMiddleware ==
    /\ Init!1 /\ Init!2 /\ Init!3 /\ Init!4 /\ Init!5 /\ Init!6 /\ Init!7
    /\ Init!8
    /\ mwPc = "idle"
    /\ requestCookies \in IncomingCookies
    /\ supabaseResponse = None
    /\ setAllCount = 0
    /\ passed = <<>>
    /\ returnedResponse = None

\* updateSession is entered: the initial response and the client are made,
\* and `await supabase.auth.getUser()` begins.
updateSession ==
    /\ mwPc = "idle"
    /\ mwPc' = "getUser"
    /\ supabaseResponse' = NextResponseNext(0, requestCookies)
    /\ UNCHANGED <<requestCookies, setAllCount, passed, returnedResponse>>
    /\ UNCHANGED <<facadeVars, calls>>

\* The client calls the setAll callback while getUser() refreshes the
\* session.
setAll ==
    /\ mwPc = "getUser"
    /\ setAllCount < MaxSetAll
    /\ \E cookiesToSet \in CookiesToSet :
          /\ requestCookies' = forEachRequestSet(requestCookies, cookiesToSet)
          /\ supabaseResponse' =
                [ NextResponseNext(setAllCount + 1, requestCookies')
                    EXCEPT !.cookies = forEachResponseSet(<<>>, cookiesToSet) ]
          /\ passed' = forEachResponseSet(passed, cookiesToSet)
    /\ setAllCount' = setAllCount + 1
    /\ UNCHANGED <<mwPc, returnedResponse>>
    /\ UNCHANGED <<facadeVars, calls>>

\* getUser() completes and updateSession returns supabaseResponse.
getUserReturns ==
    /\ mwPc = "getUser"
    /\ mwPc' = "returned"
    /\ returnedResponse' = supabaseResponse
    /\ UNCHANGED <<requestCookies, supabaseResponse, setAllCount, passed>>
    /\ UNCHANGED <<facadeVars, calls>>

\* getUser() raises: updateSession has no try/catch and returns nothing.
getUserThrows ==
    /\ mwPc = "getUser"
    /\ mwPc' = "thrown"
    /\ UNCHANGED <<requestCookies, supabaseResponse, setAllCount, passed,
                   returnedResponse>>
    /\ UNCHANGED <<facadeVars, calls>>

NextMiddleware ==
    \/ updateSession
    \/ setAll
    \/ getUserReturns
    \/ getUserThrows

SpecMiddleware == InitMiddleware /\ [][NextMiddleware]_vars

(***************************************************************************)
(* Properties                                                              *)
(***************************************************************************)
\* v is {success:true, data} -- exactly these two fields.
IsSuccess(v) == DOMAIN v = { "success", "data" } /\ v.success = TRUE
\* v is {success:false, error} -- exactly these two fields, error an AuthError.
IsFailure(v) ==
    /\ DOMAIN v = { "success", "error" }
    /\ v.success = FALSE
    /\ DOMAIN v.error = { "type", "message", "details" }
    /\ v.error.type \in AuthErrorType
\* v is a failure result of the given type.
IsFailureOf(v, type) == IsFailure(v) /\ v.error.type = type
IsAuthResult(v) == IsSuccess(v) \/ IsFailure(v)

\* The operation in progress has returned to its caller.
Returned(o) == pc = "returned" /\ op = o
\* ... after the provider call completed with a response object.
Answered(o) == Returned(o) /\ thrownAt = "none"
\* ... and that response carried an error object with a string message.
AnsweredError(o) ==
    /\ Answered(o)
    /\ Truthy(resp.error)
    /\ IsString(resp.error.message)

\* C1 (as stated): whichever of the seven operations was invoked, a
\* provider call that raises at the transport level makes the operation
\* return {success:false, error:{type:NETWORK_ERROR}}.
C1_AnyOperationNetworkError ==
    (pc = "returned" /\ thrownAt = "providerCall")
        => IsFailureOf(outcome, "NETWORK_ERROR")

\* C1 (amended): when the provider call raises at the transport level, each
\* of the five mutating operations returns {success:false, error:{type:
\* NETWORK_ERROR, message: the fixed text, no details}}, and getCurrentUser
\* and getCurrentSession return null.
C1_NetworkErrorOrNull ==
    (pc = "returned" /\ thrownAt = "providerCall") =>
        /\ op \in MutatingOps =>
              outcome = [ success |-> FALSE,
                          error |-> [ type |-> "NETWORK_ERROR",
                                      message |-> "Error de conexión. Verifica tu internet",
                                      details |-> Undefined ] ]
        /\ op \in ReadOps => outcome = Null

C1_Witness ==
    /\ Returned("signOut")
    /\ thrownAt = "providerCall"
    /\ IsFailureOf(outcome, "NETWORK_ERROR")

\* C2: each of the five mutating operations, whatever the provider did
\* (payload, error object, absent payload, exception while creating the
\* client, in the call, or while inspecting or mapping the response),
\* returns exactly one of {success:true, data} and {success:false, error};
\* no exception reaches the caller.
C2_AlwaysAuthResult ==
    (pc = "returned" /\ op \in MutatingOps) =>
        /\ outcome # Thrown
        /\ IsAuthResult(outcome)
        /\ ~(IsSuccess(outcome) /\ IsFailure(outcome))

\* Mapping the response raised (a session without a user) and the caller
\* still got a result.
C2_Witness ==
    /\ Answered("signUp")
    /\ Falsy(resp.error)
    /\ Truthy(resp.data.session)
    /\ resp.data.session.user = Null
    /\ IsFailureOf(outcome, "NETWORK_ERROR")

\* C3: signInWithPassword classifies a provider error by ordered substring
\* match on its message: "Invalid login credentials" gives
\* INVALID_CREDENTIALS with the message "Correo o contraseña incorrectos",
\* also when "Email not confirmed" occurs too; otherwise "Email not
\* confirmed" gives EMAIL_NOT_VERIFIED; otherwise UNKNOWN_ERROR whose
\* details is the raw provider message.
C3_SignInClassification ==
    AnsweredError("signInWithPassword") =>
        LET m == resp.error.message.s
            credentials == includes(m, "Invalid login credentials")
            unconfirmed == includes(m, "Email not confirmed")
        IN  /\ credentials =>
                  outcome = [ success |-> FALSE,
                              error |-> [ type |-> "INVALID_CREDENTIALS",
                                          message |-> "Correo o contraseña incorrectos",
                                          details |-> Undefined ] ]
            /\ (~credentials /\ unconfirmed) =>
                  IsFailureOf(outcome, "EMAIL_NOT_VERIFIED")
            /\ (~credentials /\ ~unconfirmed) =>
                  /\ IsFailureOf(outcome, "UNKNOWN_ERROR")
                  /\ outcome.error.details = Str(m)
            /\ m \in { "Invalid login credentials",
                       "Email not confirmed. Invalid login credentials",
                       "AuthApiError: Invalid login credentials (400)",
                       "Password reset token: Invalid login credentials" }
                  => IsFailureOf(outcome, "INVALID_CREDENTIALS")
            /\ m = "Email not confirmed"
                  => IsFailureOf(outcome, "EMAIL_NOT_VERIFIED")
            /\ m \in { "invalid login credentials", "Too many requests", "" }
                  => IsFailureOf(outcome, "UNKNOWN_ERROR")

\* Both patterns occur, "Email not confirmed" first in the text.
C3_Witness ==
    /\ AnsweredError("signInWithPassword")
    /\ resp.error.message.s = "Email not confirmed. Invalid login credentials"
    /\ IsFailureOf(outcome, "INVALID_CREDENTIALS")

\* C4: signUp classifies a provider error by ordered substring match on its
\* message: "User already registered" gives USER_ALREADY_EXISTS, also when
\* "Password" occurs too; otherwise "Password" gives WEAK_PASSWORD;
\* otherwise UNKNOWN_ERROR whose details is the raw provider message.
C4_SignUpClassification ==
    AnsweredError("signUp") =>
        LET m == resp.error.message.s
            registered == includes(m, "User already registered")
            password == includes(m, "Password")
        IN  /\ registered => IsFailureOf(outcome, "USER_ALREADY_EXISTS")
            /\ (~registered /\ password) => IsFailureOf(outcome, "WEAK_PASSWORD")
            /\ (~registered /\ ~password) =>
                  /\ IsFailureOf(outcome, "UNKNOWN_ERROR")
                  /\ outcome.error.details = Str(m)
            /\ m \in { "User already registered",
                       "Password rejected: User already registered" }
                  => IsFailureOf(outcome, "USER_ALREADY_EXISTS")
            /\ m \in { "Password should be at least 6 characters",
                       "Password reset token: Invalid login credentials" }
                  => IsFailureOf(outcome, "WEAK_PASSWORD")
            /\ m \in { "password is too weak", "Too many requests", "" }
                  => IsFailureOf(outcome, "UNKNOWN_ERROR")

\* Both patterns occur, "Password" first in the text.
C4_Witness ==
    /\ AnsweredError("signUp")
    /\ resp.error.message.s = "Password rejected: User already registered"
    /\ IsFailureOf(outcome, "USER_ALREADY_EXISTS")

\* C5: updatePassword returns INVALID_TOKEN for a provider error whose
\* message contains "token", UNKNOWN_ERROR with details equal to the raw
\* message for any other provider error message, and {success:true} with
\* an empty payload when the provider reports no error.
C5_UpdatePasswordClassification ==
    /\ AnsweredError("updatePassword") =>
        LET m == resp.error.message.s IN
            /\ includes(m, "token") => IsFailureOf(outcome, "INVALID_TOKEN")
            /\ ~includes(m, "token") =>
                  /\ IsFailureOf(outcome, "UNKNOWN_ERROR")
                  /\ outcome.error.details = Str(m)
            /\ m \in { "JWT token is invalid or expired",
                       "Password reset token: Invalid login credentials" }
                  => IsFailureOf(outcome, "INVALID_TOKEN")
            /\ m \in { "Token has expired", "Too many requests", "" }
                  => IsFailureOf(outcome, "UNKNOWN_ERROR")
    /\ (Answered("updatePassword") /\ Falsy(resp.error)) =>
            outcome = [ success |-> TRUE, data |-> Undefined ]

C5_Witness ==
    /\ AnsweredError("updatePassword")
    /\ resp.error.message.s = "JWT token is invalid or expired"
    /\ IsFailureOf(outcome, "INVALID_TOKEN")

\* C6: signOut and resetPasswordRequest apply no patterns: any provider
\* error object, whatever its message, gives {success:false, error:{type:
\* UNKNOWN_ERROR, details: the raw provider message}}.
C6_NoSpecialPatterns ==
    \A o \in { "signOut", "resetPasswordRequest" } :
        (Answered(o) /\ Truthy(resp.error)) =>
            outcome = [ success |-> FALSE,
                        error |-> [ type |-> "UNKNOWN_ERROR",
                                    message |-> "Ocurrió un error inesperado",
                                    details |-> resp.error.message ] ]

\* A message holding the patterns of sign-in, sign-up and update-password.
C6_Witness ==
    /\ AnsweredError("resetPasswordRequest")
    /\ resp.error.message.s = "Password reset token: Invalid login credentials"
    /\ IsFailureOf(outcome, "UNKNOWN_ERROR")

\* C7: for signInWithPassword and signUp, a response with no error and no
\* session gives {success:false, error:{type:UNKNOWN_ERROR}}; a success
\* result is returned only when the provider reported no error and a
\* session is present, and its data is then the mapped provider session.
C7_SessionRequired ==
    \A o \in { "signInWithPassword", "signUp" } :
        /\ (Answered(o) /\ Falsy(resp.error) /\ Falsy(resp.data.session)) =>
              /\ IsFailureOf(outcome, "UNKNOWN_ERROR")
              /\ outcome.error.details = Undefined
        /\ (Returned(o) /\ IsSuccess(outcome)) =>
              /\ thrownAt = "none"
              /\ Falsy(resp.error)
              /\ Truthy(resp.data.session)
              /\ outcome.data = mapSupabaseSession(resp.data.session)
              /\ outcome.data.accessToken = resp.data.session.access_token
              /\ outcome.data.user.id = resp.data.session.user.id

C7_Witness ==
    /\ Answered("signInWithPassword")
    /\ resp.error = Null
    /\ resp.data.session = Null
    /\ IsFailureOf(outcome, "UNKNOWN_ERROR")

\* C8: getCurrentUser and getCurrentSession return null -- never an
\* AuthResult, never an exception -- whenever the provider reports an error
\* or the user/session is absent, also when an error and a payload come
\* together; they return the mapped User/AuthSession only when there is no
\* error and the payload is present.
C8_ReadsReturnNull ==
    /\ (pc = "returned" /\ op \in ReadOps) =>
          /\ outcome # Thrown
          /\ ~IsAuthResult(outcome)
          /\ thrownAt # "none" => outcome = Null
    /\ Answered("getCurrentUser") =>
          /\ (Truthy(resp.error) \/ Falsy(resp.data.user)) => outcome = Null
          /\ outcome # Null =>
                /\ Falsy(resp.error)
                /\ Truthy(resp.data.user)
                /\ outcome = mapSupabaseUser(resp.data.user)
                /\ outcome.id = resp.data.user.id
    /\ Answered("getCurrentSession") =>
          /\ (Truthy(resp.error) \/ Falsy(resp.data.session)) => outcome = Null
          /\ outcome # Null =>
                /\ Falsy(resp.error)
                /\ Truthy(resp.data.session)
                /\ outcome = mapSupabaseSession(resp.data.session)
                /\ outcome.accessToken = resp.data.session.access_token

\* An error and a user come together.
C8_Witness ==
    /\ Answered("getCurrentUser")
    /\ Truthy(resp.error)
    /\ Truthy(resp.data.user)
    /\ outcome = Null

\* C9: for a provider user with a non-null email (every user of
\* ProviderUsers has one), the mapped user's
\* emailVerified is true if and only if a confirmation timestamp is present
\* on the provider user: false when email_confirmed_at is null and false
\* when the field is omitted.
C9_EmailVerifiedIffConfirmed ==
    (Answered("getCurrentUser") /\ outcome # Null) =>
        outcome.emailVerified = IsString(resp.data.user.email_confirmed_at)

\* C10: the mapped session's expiresAt is exactly the provider session's
\* expires_at, and 0 when expires_at is omitted; accessToken, refreshToken
\* and user are the provider's access_token, refresh_token and the
\* mapSupabaseUser image of the embedded user.
C10_SessionRoundTrip ==
    LET Mapped(s, d) ==
            /\ s.expires_at # Undefined => d.expiresAt = s.expires_at
            /\ s.expires_at = Undefined => d.expiresAt = Num(0)
            /\ d.accessToken = s.access_token
            /\ d.refreshToken = s.refresh_token
            /\ d.user = mapSupabaseUser(s.user)
            /\ DOMAIN d = { "user", "accessToken", "refreshToken", "expiresAt" }
    IN  /\ (Answered("getCurrentSession") /\ outcome # Null) =>
              Mapped(resp.data.session, outcome)
        /\ \A o \in { "signInWithPassword", "signUp" } :
              (Answered(o) /\ IsSuccess(outcome)) =>
                  Mapped(resp.data.session, outcome.data)

\* A session that omits expires_at has been mapped.
C10_Witness ==
    /\ Answered("getCurrentSession")
    /\ outcome # Null
    /\ resp.data.session.expires_at = Undefined
    /\ outcome.expiresAt = Num(0)

\* C11: in every failure result of a facade operation, and in every output
\* of createAuthError over the eight AuthErrorType values, error.message is
\* the entry of AUTH_ERROR_MESSAGES for error.type, is not empty and is not
\* the provider's text; provider text appears only in details, which
\* createAuthError passes through unmodified, so that the output is fixed
\* by type and details alone.
C11_MessageFromTable ==
    /\ (pc = "returned" /\ IsFailure(outcome)) =>
          /\ outcome.error.message = AUTH_ERROR_MESSAGES[outcome.error.type]
          /\ outcome.error.message # ""
          /\ outcome.error.message \notin ProviderMessages
          /\ \/ outcome.error.details = Undefined
             \/ /\ thrownAt = "none"
                /\ Truthy(resp.error)
                /\ outcome.error.details = resp.error.message
    /\ pc = "called" =>
          /\ args.type \in AuthErrorType
          /\ outcome = [ type |-> args.type,
                         message |-> AUTH_ERROR_MESSAGES[args.type],
                         details |-> args.details ]
          /\ outcome.message # ""
          /\ outcome.message \notin ProviderMessages
    /\ DOMAIN AUTH_ERROR_MESSAGES = AuthErrorType
    /\ \A type \in AuthErrorType : AUTH_ERROR_MESSAGES[type] # ""

\* createAuthError was given a type no facade operation produces, with a
\* provider text as details.
C11_Witness ==
    /\ pc = "called"
    /\ args = [ type |-> "SESSION_EXPIRED", details |-> Str("Too many requests") ]
    /\ outcome.message = "Tu sesión ha expirado. Inicia sesión nuevamente"
    /\ outcome.details = Str("Too many requests")

\* C12: the facade keeps no state between calls: however concurrent
\* invocations interleave, what each returns is fixed by its own operation
\* and the provider's answer to its own call, and is what the operation
\* returns when it runs alone with that answer; invocations of the same
\* operation that got the same answer return the same value.
C12_InvocationsIndependent ==
    LET own(i) == IF calls[i].thrownAt # "none" THEN Thrown ELSE calls[i].resp
        done(i) == calls[i].pc = "returned"
    IN  /\ \A i \in DOMAIN calls :
              done(i) => calls[i].outcome = authRepository(calls[i].op, own(i))
        /\ \A i, j \in DOMAIN calls :
              (done(i) /\ done(j) /\ calls[i].op = calls[j].op /\ own(i) = own(j))
                  => calls[i].outcome = calls[j].outcome

\* Two sign-in attempts with different answers: the second has returned
\* its own result while the first still holds its answer.
C12_Witness ==
    /\ calls[1].op = "signInWithPassword" /\ calls[1].pc = "responded"
    /\ calls[2].op = "signInWithPassword" /\ calls[2].pc = "returned"
    /\ calls[2].thrownAt = "none"
    /\ calls[1].resp.error = ErrorWith("Invalid login credentials")
    /\ calls[2].resp.error = Null
    /\ calls[2].resp.data.session = SomeSession
    /\ calls[2].outcome = Ok(mapSupabaseSession(SomeSession))

\* C13 (as stated): each facade invocation issues at most one provider
\* call and never retries: a provider call that raised surfaces exactly
\* once, as the single NETWORK_ERROR result of that invocation.
C13_OneCallNetworkError ==
    /\ providerCalls <= 1
    /\ (pc = "returned" /\ thrownAt = "providerCall") =>
          /\ providerCalls = 1
          /\ IsFailureOf(outcome, "NETWORK_ERROR")

\* C13 (amended): each facade invocation issues at most one provider call
\* and never retries: none before the client exists, exactly one once the
\* provider answered or raised, and none after the result is returned; a
\* provider call that raised surfaces exactly once, as the single
\* NETWORK_ERROR result of a mutating operation and as the single null
\* result of getCurrentUser and getCurrentSession.
C13_AtMostOneCall ==
    /\ providerCalls <= 1
    /\ pc \in { "idle", "createClient", "providerCall", "called" }
          => providerCalls = 0
    /\ pc = "responded" => providerCalls = 1
    /\ pc = "returned" =>
          providerCalls = IF thrownAt = "createClient" THEN 0 ELSE 1
    /\ (pc = "returned" /\ thrownAt = "providerCall") =>
          /\ op \in MutatingOps => IsFailureOf(outcome, "NETWORK_ERROR")
          /\ op \in ReadOps => outcome = Null

\* The one call of an updatePassword invocation raised and the invocation
\* returned NETWORK_ERROR.
C13_Witness ==
    /\ Returned("updatePassword")
    /\ thrownAt = "providerCall"
    /\ providerCalls = 1
    /\ IsFailureOf(outcome, "NETWORK_ERROR")

\* C14: updateSession returns a response carrying the updated cookies:
\* every cookie passed to any setAll callback during the getUser refresh is
\* set on the returned response and on the request cookies; when setAll is
\* never called, the initial pass-through response is returned unchanged.
C14_ResponseCarriesAllCookies ==
    mwPc = "returned" =>
        /\ \A n \in DOMAIN passed :
              /\ n \in DOMAIN returnedResponse.cookies
              /\ returnedResponse.cookies[n] = passed[n]
              /\ n \in DOMAIN requestCookies
              /\ requestCookies[n] = passed[n].value
        /\ setAllCount = 0 =>
              returnedResponse = NextResponseNext(0, requestCookies)

====
